---- MODULE Spec2Model ----
(***************************************************************************)
(* EPUB -> M4B audiobook pipeline (AlistairKeiller/tts).                   *)
(*                                                                         *)
(*   main.py   main                 : parse, synthesise, build, cleanup    *)
(*   tts.py    synthesise_chapters  : resumable per-chapter synthesis      *)
(*   tts.py    _split_text          : sentence / clause chunking           *)
(*   m4b.py    build_m4b            : chapter spans, metadata, ffmpeg      *)
(*   m4b.py    _escape_ffmeta       : FFMETADATA1 escaping                 *)
(*                                                                         *)
(* Six specifications share the variables:                                *)
(*   Spec          the whole pipeline, engine failures and restarts        *)
(*   SpecIO        Spec plus failing artifact writes / reads               *)
(*   SpecChapter   one chapter, every set of failing segments              *)
(*   SpecTimeline  build_m4b on arbitrary file lists and durations         *)
(*   SpecSplit     _split_text on bounded texts                            *)
(*   SpecEscape    _escape_ffmeta on bounded strings                       *)
(***************************************************************************)
EXTENDS Integers, Sequences, FiniteSets, TLC

VARIABLES
    chapters,       \* main: list[Chapter]; a chapter is [title, nchunks]
    bad,            \* engine: per chapter, the segments it cannot synthesise
    keep_wav,       \* main: args.keep_wav
    disk,           \* wav_dir: chapter index -> [audio, ms] of chapter_<idx>.wav
    tmp,            \* temporary files / directories that currently exist
    pc,             \* control point
    ch_idx,         \* synthesise_chapters: loop index (0-based)
    b_start,        \* synthesise_chapters: batch loop index
    all_audio,      \* synthesise_chapters: audio collected for the chapter
    sr,             \* synthesise_chapters: TRUE once a sample rate is known
    wav_paths,      \* synthesise_chapters / build_m4b: list of chapter indices
    titles,         \* main / build_m4b: chapter_titles
    cursor_ms,      \* build_m4b
    chapter_spans,  \* build_m4b: list of [title, start, end]
    error,          \* the exception / exit that ended the run, or "none"
    restarts,       \* number of interrupted-and-restarted runs so far
    resumed,        \* chapters the current run found already on disk
    calls,          \* engine calls the current run made, per chapter
    text,           \* _split_text: input text
    max_chars,      \* _split_text: max_chars
    chunks,         \* _split_text: result, each chunk as the units joined
    orig,           \* _escape_ffmeta: the argument
    value,          \* _escape_ffmeta: the local being rewritten
    esc_i           \* _escape_ffmeta: number of replace passes done

vars == <<chapters, bad, keep_wav, disk, tmp, pc, ch_idx, b_start, all_audio,
          sr, wav_paths, titles, cursor_ms, chapter_spans, error, restarts,
          resumed, calls, text, max_chars, chunks, orig, value, esc_i>>

pipeVars == <<chapters, bad, keep_wav, disk, tmp, ch_idx, b_start, all_audio,
              sr, wav_paths, titles, cursor_ms, chapter_spans, error, restarts,
              resumed, calls>>
splitVars == <<text, max_chars, chunks>>
escVars == <<orig, value, esc_i>>

----------------------------------------------------------------------------
(* Bounds *)
MaxChapters == 2
MaxChunks == 5
MaxRestarts == 1
MaxFiles == 3
MaxDur == 2
MaxTextLen == 5
MaxMaxChars == 4
MaxTitleLen == 4

(* Program constants *)
BATCH_SIZE == 4

----------------------------------------------------------------------------
(* Generic helpers *)
Range(s) == {s[i] : i \in 1..Len(s)}
Min(a, b) == IF a < b THEN a ELSE b
Interval(lo, hi) == [i \in 1..(IF hi >= lo THEN hi - lo + 1 ELSE 0) |-> lo + i - 1]
NoFiles == [i \in {} |-> 0]
StrictlyIncreasing(s) == \A i \in 1..Len(s) : \A j \in 1..Len(s) : i < j => s[i] < s[j]

----------------------------------------------------------------------------
(* synthesise_chapters *)

\* the Chapter being processed: chapters[ch_idx]
Chapter(i) == chapters[i + 1]

\* chunks[b_start : b_start + batch_size], as 1-based segment numbers
Batch(i, b) == Interval(b + 1, Min(b + BATCH_SIZE, Chapter(i).nchunks))

\* model.generate_custom_voice raises iff the batch holds a segment the
\* engine cannot synthesise
CallFails(i, b) == Range(Batch(i, b)) \cap bad[i + 1] # {}

\* main: mkdtemp / wav_chapters, then the entry of synthesise_chapters
MainStart ==
    /\ pc = "main"
    /\ pc' = "chapter"
    /\ tmp' = IF keep_wav THEN tmp ELSE tmp \cup {"wav_dir"}
    /\ disk' = IF keep_wav THEN disk ELSE NoFiles
    /\ wav_paths' = <<>>
    /\ ch_idx' = 0
    /\ resumed' = {}
    /\ calls' = [i \in 1..Len(chapters) |-> 0]
    /\ UNCHANGED <<chapters, bad, keep_wav, b_start, all_audio, sr, titles,
                   cursor_ms, chapter_spans, error, restarts>>
    /\ UNCHANGED <<splitVars, escVars>>

\* ResumeChapter that forgets to return the existing file
ResumeChapter_m ==
    /\ pc = "chapter"
    /\ ch_idx < Len(chapters)
    /\ ch_idx \in DOMAIN disk
    /\ resumed' = resumed \cup {ch_idx}
    /\ ch_idx' = ch_idx + 1
    /\ UNCHANGED <<chapters, bad, keep_wav, disk, tmp, pc, b_start, all_audio,
                   sr, wav_paths, titles, cursor_ms, chapter_spans, error,
                   restarts, calls>>
    /\ UNCHANGED <<splitVars, escVars>>

\* if wav_path.exists(): wav_paths.append(wav_path); continue
ResumeChapter ==
    /\ pc = "chapter"
    /\ ch_idx < Len(chapters)
    /\ ch_idx \in DOMAIN disk
    /\ wav_paths' = Append(wav_paths, ch_idx)
    /\ resumed' = resumed \cup {ch_idx}
    /\ ch_idx' = ch_idx + 1
    /\ UNCHANGED <<chapters, bad, keep_wav, disk, tmp, pc, b_start, all_audio,
                   sr, titles, cursor_ms, chapter_spans, error, restarts, calls>>
    /\ UNCHANGED <<splitVars, escVars>>

\* chunks = _split_text(chapter.text); all_audio = []; sr = None
BeginChapter ==
    /\ pc = "chapter"
    /\ ch_idx < Len(chapters)
    /\ ch_idx \notin DOMAIN disk
    /\ all_audio' = <<>>
    /\ sr' = FALSE
    /\ b_start' = 0
    /\ pc' = "batch"
    /\ UNCHANGED <<chapters, bad, keep_wav, disk, tmp, ch_idx, wav_paths,
                   titles, cursor_ms, chapter_spans, error, restarts, resumed,
                   calls>>
    /\ UNCHANGED <<splitVars, escVars>>

\* SynthBatchOk that puts the newest batch in front
SynthBatchOk_m ==
    /\ pc = "batch"
    /\ b_start < Chapter(ch_idx).nchunks
    /\ ~CallFails(ch_idx, b_start)
    /\ all_audio' = Batch(ch_idx, b_start) \o all_audio
    /\ sr' = TRUE
    /\ b_start' = b_start + BATCH_SIZE
    /\ calls' = [calls EXCEPT ![ch_idx + 1] = @ + 1]
    /\ UNCHANGED <<chapters, bad, keep_wav, disk, tmp, pc, ch_idx, wav_paths,
                   titles, cursor_ms, chapter_spans, error, restarts, resumed>>
    /\ UNCHANGED <<splitVars, escVars>>

\* try: wavs, sample_rate = model.generate_custom_voice(batch); extend
SynthBatchOk ==
    /\ pc = "batch"
    /\ b_start < Chapter(ch_idx).nchunks
    /\ ~CallFails(ch_idx, b_start)
    /\ all_audio' = all_audio \o Batch(ch_idx, b_start)
    /\ sr' = TRUE
    /\ b_start' = b_start + BATCH_SIZE
    /\ calls' = [calls EXCEPT ![ch_idx + 1] = @ + 1]
    /\ UNCHANGED <<chapters, bad, keep_wav, disk, tmp, pc, ch_idx, wav_paths,
                   titles, cursor_ms, chapter_spans, error, restarts, resumed>>
    /\ UNCHANGED <<splitVars, escVars>>

\* SynthBatchFail that leaves the batch loop (break instead of continuing)
SynthBatchFail_m ==
    /\ pc = "batch"
    /\ b_start < Chapter(ch_idx).nchunks
    /\ CallFails(ch_idx, b_start)
    /\ b_start' = Chapter(ch_idx).nchunks
    /\ calls' = [calls EXCEPT ![ch_idx + 1] = @ + 1]
    /\ UNCHANGED <<chapters, bad, keep_wav, disk, tmp, pc, ch_idx, all_audio,
                   sr, wav_paths, titles, cursor_ms, chapter_spans, error,
                   restarts, resumed>>
    /\ UNCHANGED <<splitVars, escVars>>

\* except Exception: logger.exception(... skipping batch)
SynthBatchFail ==
    /\ pc = "batch"
    /\ b_start < Chapter(ch_idx).nchunks
    /\ CallFails(ch_idx, b_start)
    /\ b_start' = b_start + BATCH_SIZE
    /\ calls' = [calls EXCEPT ![ch_idx + 1] = @ + 1]
    /\ UNCHANGED <<chapters, bad, keep_wav, disk, tmp, pc, ch_idx, all_audio,
                   sr, wav_paths, titles, cursor_ms, chapter_spans, error,
                   restarts, resumed>>
    /\ UNCHANGED <<splitVars, escVars>>

\* SkipChapter that still returns the path of the file it did not write
SkipChapter_m ==
    /\ pc = "batch"
    /\ b_start >= Chapter(ch_idx).nchunks
    /\ (all_audio = <<>> \/ ~sr)
    /\ wav_paths' = Append(wav_paths, ch_idx)
    /\ ch_idx' = ch_idx + 1
    /\ pc' = "chapter"
    /\ UNCHANGED <<chapters, bad, keep_wav, disk, tmp, b_start, all_audio, sr,
                   titles, cursor_ms, chapter_spans, error, restarts, resumed,
                   calls>>
    /\ UNCHANGED <<splitVars, escVars>>

\* if not all_audio or sr is None: warning; continue
SkipChapter ==
    /\ pc = "batch"
    /\ b_start >= Chapter(ch_idx).nchunks
    /\ (all_audio = <<>> \/ ~sr)
    /\ ch_idx' = ch_idx + 1
    /\ pc' = "chapter"
    /\ UNCHANGED <<chapters, bad, keep_wav, disk, tmp, b_start, all_audio, sr,
                   wav_paths, titles, cursor_ms, chapter_spans, error,
                   restarts, resumed, calls>>
    /\ UNCHANGED <<splitVars, escVars>>

\* combined = np.concatenate(all_audio); sf.write(...); wav_paths.append
\* every synthesised segment lasts one millisecond unit
WriteChapter ==
    /\ pc = "batch"
    /\ b_start >= Chapter(ch_idx).nchunks
    /\ ~(all_audio = <<>> \/ ~sr)
    /\ disk' = [i \in DOMAIN disk \cup {ch_idx} |->
                  IF i = ch_idx THEN [audio |-> all_audio, ms |-> Len(all_audio)]
                  ELSE disk[i]]
    /\ wav_paths' = Append(wav_paths, ch_idx)
    /\ ch_idx' = ch_idx + 1
    /\ pc' = "chapter"
    /\ UNCHANGED <<chapters, bad, keep_wav, tmp, b_start, all_audio, sr,
                   titles, cursor_ms, chapter_spans, error, restarts, resumed,
                   calls>>
    /\ UNCHANGED <<splitVars, escVars>>

\* sf.write raises: nothing in synthesise_chapters or main catches it
WriteChapterFails ==
    /\ pc = "batch"
    /\ b_start >= Chapter(ch_idx).nchunks
    /\ ~(all_audio = <<>> \/ ~sr)
    /\ pc' = "failed"
    /\ error' = "io"
    /\ UNCHANGED <<chapters, bad, keep_wav, disk, tmp, ch_idx, b_start,
                   all_audio, sr, wav_paths, titles, cursor_ms, chapter_spans,
                   restarts, resumed, calls>>
    /\ UNCHANGED <<splitVars, escVars>>

\* return wav_paths
SynthReturn ==
    /\ pc = "chapter"
    /\ ch_idx = Len(chapters)
    /\ pc' = "synth_done"
    /\ UNCHANGED pipeVars
    /\ UNCHANGED <<splitVars, escVars>>

\* the process is killed between two chapters and main is run again with the
\* same arguments
InterruptAndRestart ==
    /\ pc = "chapter"
    /\ ch_idx >= 1
    /\ restarts < MaxRestarts
    /\ restarts' = restarts + 1
    /\ pc' = "main"
    /\ UNCHANGED <<chapters, bad, keep_wav, disk, tmp, ch_idx, b_start,
                   all_audio, sr, wav_paths, titles, cursor_ms, chapter_spans,
                   error, resumed, calls>>
    /\ UNCHANGED <<splitVars, escVars>>

----------------------------------------------------------------------------
(* main, after synthesise_chapters *)

\* if not wav_paths: log.error; sys.exit(1)
NoAudioExit ==
    /\ pc = "synth_done"
    /\ wav_paths = <<>>
    /\ pc' = "failed"
    /\ error' = "no_audio"
    /\ UNCHANGED <<chapters, bad, keep_wav, disk, tmp, ch_idx, b_start,
                   all_audio, sr, wav_paths, titles, cursor_ms, chapter_spans,
                   restarts, resumed, calls>>
    /\ UNCHANGED <<splitVars, escVars>>

\* titles = [ch.title for ch in chapters[: len(wav_paths)]]
AlignTitles ==
    /\ pc = "synth_done"
    /\ wav_paths # <<>>
    /\ titles' = [i \in 1..Len(wav_paths) |-> chapters[i].title]
    /\ pc' = "build"
    /\ UNCHANGED <<chapters, bad, keep_wav, disk, tmp, ch_idx, b_start,
                   all_audio, sr, wav_paths, cursor_ms, chapter_spans, error,
                   restarts, resumed, calls>>
    /\ UNCHANGED <<splitVars, escVars>>

----------------------------------------------------------------------------
(* build_m4b *)

\* sf.info(wav_path).duration in milliseconds
probe_duration_ms(wp) == disk[wp].ms

\* if len(wav_paths) != len(chapter_titles): raise ValueError; cursor_ms = 0
BuildM4bEnter ==
    /\ pc = "build"
    /\ IF Len(wav_paths) # Len(titles)
       THEN /\ pc' = "failed"
            /\ error' = "value"
            /\ UNCHANGED <<cursor_ms, chapter_spans>>
       ELSE /\ pc' = "spans"
            /\ cursor_ms' = 0
            /\ chapter_spans' = <<>>
            /\ UNCHANGED error
    /\ UNCHANGED <<chapters, bad, keep_wav, disk, tmp, ch_idx, b_start,
                   all_audio, sr, wav_paths, titles, restarts, resumed, calls>>
    /\ UNCHANGED <<splitVars, escVars>>

\* BuildSpan that does not advance the cursor
BuildSpan_m ==
    /\ pc = "spans"
    /\ Len(chapter_spans) < Len(wav_paths)
    /\ LET i == Len(chapter_spans) + 1
           dur == probe_duration_ms(wav_paths[i])
       IN /\ chapter_spans' = Append(chapter_spans,
                 [title |-> titles[i], start |-> cursor_ms, end |-> cursor_ms + dur])
          /\ cursor_ms' = cursor_ms
    /\ UNCHANGED <<chapters, bad, keep_wav, disk, tmp, pc, ch_idx, b_start,
                   all_audio, sr, wav_paths, titles, error, restarts, resumed,
                   calls>>
    /\ UNCHANGED <<splitVars, escVars>>

\* for wp, title in zip(wav_paths, chapter_titles): one iteration
BuildSpan ==
    /\ pc = "spans"
    /\ Len(chapter_spans) < Len(wav_paths)
    /\ LET i == Len(chapter_spans) + 1
           dur == probe_duration_ms(wav_paths[i])
       IN /\ chapter_spans' = Append(chapter_spans,
                 [title |-> titles[i], start |-> cursor_ms, end |-> cursor_ms + dur])
          /\ cursor_ms' = cursor_ms + dur
    /\ UNCHANGED <<chapters, bad, keep_wav, disk, tmp, pc, ch_idx, b_start,
                   all_audio, sr, wav_paths, titles, error, restarts, resumed,
                   calls>>
    /\ UNCHANGED <<splitVars, escVars>>

\* sf.info raises inside the span loop: build_m4b and main propagate it
ProbeFails ==
    /\ pc = "spans"
    /\ Len(chapter_spans) < Len(wav_paths)
    /\ pc' = "failed"
    /\ error' = "io"
    /\ UNCHANGED <<chapters, bad, keep_wav, disk, tmp, ch_idx, b_start,
                   all_audio, sr, wav_paths, titles, cursor_ms, chapter_spans,
                   restarts, resumed, calls>>
    /\ UNCHANGED <<splitVars, escVars>>

\* the two NamedTemporaryFile(delete=False) blocks: metadata and concat list
WriteMuxerInputs ==
    /\ pc = "spans"
    /\ Len(chapter_spans) = Len(wav_paths)
    /\ tmp' = tmp \cup {"metadata", "concat"}
    /\ pc' = "ffmpeg"
    /\ UNCHANGED <<chapters, bad, keep_wav, disk, ch_idx, b_start, all_audio,
                   sr, wav_paths, titles, cursor_ms, chapter_spans, error,
                   restarts, resumed, calls>>
    /\ UNCHANGED <<splitVars, escVars>>

\* subprocess.run returns 0; finally: unlink both files; return to main
RunFfmpegOk ==
    /\ pc = "ffmpeg"
    /\ tmp' = tmp \ {"metadata", "concat"}
    /\ pc' = "cleanup"
    /\ UNCHANGED <<chapters, bad, keep_wav, disk, ch_idx, b_start, all_audio,
                   sr, wav_paths, titles, cursor_ms, chapter_spans, error,
                   restarts, resumed, calls>>
    /\ UNCHANGED <<splitVars, escVars>>

\* returncode != 0: raise RuntimeError; finally: unlink both files; the
\* exception leaves build_m4b and main
RunFfmpegFail ==
    /\ pc = "ffmpeg"
    /\ tmp' = tmp \ {"metadata", "concat"}
    /\ pc' = "failed"
    /\ error' = "ffmpeg"
    /\ UNCHANGED <<chapters, bad, keep_wav, disk, ch_idx, b_start, all_audio,
                   sr, wav_paths, titles, cursor_ms, chapter_spans, restarts,
                   resumed, calls>>
    /\ UNCHANGED <<splitVars, escVars>>

\* if not args.keep_wav: shutil.rmtree(wav_dir, ignore_errors=True)
MainCleanup ==
    /\ pc = "cleanup"
    /\ tmp' = IF keep_wav THEN tmp ELSE tmp \ {"wav_dir"}
    /\ disk' = IF keep_wav THEN disk ELSE NoFiles
    /\ pc' = "done"
    /\ UNCHANGED <<chapters, bad, keep_wav, ch_idx, b_start, all_audio, sr,
                   wav_paths, titles, cursor_ms, chapter_spans, error,
                   restarts, resumed, calls>>
    /\ UNCHANGED <<splitVars, escVars>>

----------------------------------------------------------------------------
(* Specifications of the pipeline *)

ChapterInputs ==
    UNION {[1..n -> 1..MaxChunks] : n \in 1..MaxChapters}

\* the first segment of every batch of a chapter of n chunks
BatchHeads(n) == {k \in 1..n : (k - 1) % BATCH_SIZE = 0}

IdleSplit == text = <<>> /\ max_chars = 1 /\ chunks = <<>>
IdleEscape == orig = <<>> /\ value = <<>> /\ esc_i = 0

\* the engine behaviour of the pipeline runs is any set of failing calls per
\* chapter; the failing segment of a failing call is the first of its batch
Init ==
    /\ \E nc \in ChapterInputs :
         /\ chapters = [i \in 1..Len(nc) |-> [title |-> i - 1, nchunks |-> nc[i]]]
         /\ \E b \in [1..Len(nc) -> SUBSET BatchHeads(MaxChunks)] :
              /\ \A i \in 1..Len(nc) : b[i] \subseteq BatchHeads(nc[i])
              /\ bad = b
         /\ calls = [i \in 1..Len(nc) |-> 0]
    /\ keep_wav \in BOOLEAN
    /\ disk = NoFiles
    /\ tmp = {}
    /\ pc = "main"
    /\ ch_idx = 0
    /\ b_start = 0
    /\ all_audio = <<>>
    /\ sr = FALSE
    /\ wav_paths = <<>>
    /\ titles = <<>>
    /\ cursor_ms = 0
    /\ chapter_spans = <<>>
    /\ error = "none"
    /\ restarts = 0
    /\ resumed = {}
    /\ IdleSplit
    /\ IdleEscape

Next ==
    \/ MainStart
    \/ ResumeChapter
    \/ BeginChapter
    \/ SynthBatchOk
    \/ SynthBatchFail
    \/ SkipChapter
    \/ WriteChapter
    \/ SynthReturn
    \/ InterruptAndRestart
    \/ NoAudioExit
    \/ AlignTitles
    \/ BuildM4bEnter
    \/ BuildSpan
    \/ WriteMuxerInputs
    \/ RunFfmpegOk
    \/ RunFfmpegFail
    \/ MainCleanup

Spec == Init /\ [][Next]_vars

NextIO ==
    \/ Next
    \/ WriteChapterFails
    \/ ProbeFails

SpecIO == Init /\ [][NextIO]_vars

----------------------------------------------------------------------------
(* synthesise_chapters on one chapter, every set of failing segments *)

InitChapter ==
    /\ \E n \in 1..MaxChunks :
         /\ chapters = <<[title |-> 0, nchunks |-> n]>>
         /\ \E b \in SUBSET (1..n) : bad = <<b>>
    /\ calls = <<0>>
    /\ keep_wav \in BOOLEAN
    /\ disk = NoFiles
    /\ tmp = {}
    /\ pc = "main"
    /\ ch_idx = 0
    /\ b_start = 0
    /\ all_audio = <<>>
    /\ sr = FALSE
    /\ wav_paths = <<>>
    /\ titles = <<>>
    /\ cursor_ms = 0
    /\ chapter_spans = <<>>
    /\ error = "none"
    /\ restarts = 0
    /\ resumed = {}
    /\ IdleSplit
    /\ IdleEscape

NextChapter ==
    \/ MainStart
    \/ BeginChapter
    \/ SynthBatchOk
    \/ SynthBatchFail
    \/ SkipChapter
    \/ WriteChapter
    \/ SynthReturn

SpecChapter == InitChapter /\ [][NextChapter]_vars

----------------------------------------------------------------------------
(* build_m4b called on its own: any list of existing files, any durations *)

InitTimeline ==
    /\ \E n \in 1..MaxFiles :
         /\ wav_paths = [i \in 1..n |-> i - 1]
         /\ \E d \in [0..(n - 1) -> 0..MaxDur] :
              disk = [i \in 0..(n - 1) |-> [audio |-> <<>>, ms |-> d[i]]]
         /\ \E m \in {n - 1, n} : titles = [i \in 1..m |-> i - 1]
    /\ chapters = <<>>
    /\ bad = <<>>
    /\ calls = <<>>
    /\ keep_wav = TRUE
    /\ tmp = {}
    /\ pc = "build"
    /\ ch_idx = 0
    /\ b_start = 0
    /\ all_audio = <<>>
    /\ sr = FALSE
    /\ cursor_ms = 0
    /\ chapter_spans = <<>>
    /\ error = "none"
    /\ restarts = 0
    /\ resumed = {}
    /\ IdleSplit
    /\ IdleEscape

NextTimeline ==
    \/ BuildM4bEnter
    \/ BuildSpan
    \/ WriteMuxerInputs
    \/ RunFfmpegOk
    \/ RunFfmpegFail

SpecTimeline == InitTimeline /\ [][NextTimeline]_vars

----------------------------------------------------------------------------
(* _split_text: a text is a sequence of one-character strings *)

\* the characters of the bounded input texts
TextAlphabet == {"a", ".", ",", " "}
\* _SENTENCE_RE and _CLAUSE_RE lookbehind classes (ASCII members)
SENTENCE_END == {".", "!", "?"}
CLAUSE_END == {",", ";", ":"}
IsSpace(c) == c \in {" ", "\n", "\t"}

\* re.split on (?<=[P])\s+ : a match is a maximal whitespace run whose
\* first character follows a character of P
RECURSIVE SplitFrom(_, _, _, _, _, _)
SplitFrom(s, i, cur, acc, P, inMatch) ==
    IF i > Len(s) THEN Append(acc, cur)
    ELSE IF IsSpace(s[i]) /\ inMatch
         THEN SplitFrom(s, i + 1, cur, acc, P, TRUE)
    ELSE IF IsSpace(s[i]) /\ i > 1 /\ s[i - 1] \in P
         THEN SplitFrom(s, i + 1, <<>>, Append(acc, cur), P, TRUE)
    ELSE SplitFrom(s, i + 1, Append(cur, s[i]), acc, P, FALSE)

re_split(s, P) == SplitFrom(s, 1, <<>>, <<>>, P, FALSE)

\* str.strip()
RECURSIVE lstrip(_)
lstrip(s) == IF s # <<>> /\ IsSpace(s[1]) THEN lstrip(Tail(s)) ELSE s
RECURSIVE rstrip(_)
rstrip(s) == IF s # <<>> /\ IsSpace(s[Len(s)])
             THEN rstrip(SubSeq(s, 1, Len(s) - 1)) ELSE s
strip(s) == rstrip(lstrip(s))

\* " ".join(buf)
RECURSIVE join(_)
join(buf) == IF buf = <<>> THEN <<>>
             ELSE IF Len(buf) = 1 THEN buf[1]
             ELSE buf[1] \o <<" ">> \o join(Tail(buf))

\* if length + len(unit) > max_chars and buf: flush; buf.append; length +=
\* st is the loop state [chunks, buf, length]; chunks keeps each flushed buf
AddUnit(st, unit, mc) ==
    LET flushed == IF st.length + Len(unit) > mc /\ st.buf # <<>>
                   THEN [chunks |-> Append(st.chunks, st.buf), buf |-> <<>>, length |-> 0]
                   ELSE st
    IN [chunks |-> flushed.chunks,
        buf |-> Append(flushed.buf, unit),
        length |-> flushed.length + Len(unit)]

\* for clause in _CLAUSE_RE.split(sent)
RECURSIVE ClauseLoop(_, _, _, _)
ClauseLoop(clauses, j, st, mc) ==
    IF j > Len(clauses) THEN st
    ELSE LET clause == strip(clauses[j])
         IN IF clause = <<>> THEN ClauseLoop(clauses, j + 1, st, mc)
            ELSE ClauseLoop(clauses, j + 1, AddUnit(st, clause, mc), mc)

\* for sent in sentences
RECURSIVE SentenceLoop(_, _, _, _)
SentenceLoop(sentences, i, st, mc) ==
    IF i > Len(sentences) THEN st
    ELSE LET sent == strip(sentences[i])
         IN IF sent = <<>> THEN SentenceLoop(sentences, i + 1, st, mc)
            ELSE IF Len(sent) > mc
            THEN LET st1 == IF st.buf # <<>>
                            THEN [chunks |-> Append(st.chunks, st.buf),
                                  buf |-> <<>>, length |-> 0]
                            ELSE st
                 IN SentenceLoop(sentences, i + 1,
                        ClauseLoop(re_split(sent, CLAUSE_END), 1, st1, mc), mc)
            ELSE SentenceLoop(sentences, i + 1, AddUnit(st, sent, mc), mc)

\* the chunks of _split_text, each as the list of units that is joined
split_text(t, mc) ==
    LET st == SentenceLoop(re_split(t, SENTENCE_END), 1,
                           [chunks |-> <<>>, buf |-> <<>>, length |-> 0], mc)
    IN IF st.buf # <<>> THEN Append(st.chunks, st.buf) ELSE st.chunks

SplitText ==
    /\ pc = "split_text"
    /\ chunks' = split_text(text, max_chars)
    /\ pc' = "split_done"
    /\ UNCHANGED <<text, max_chars>>
    /\ UNCHANGED <<pipeVars, escVars>>

RECURSIVE Strings(_, _)
Strings(A, n) ==
    IF n = 0 THEN {<<>>}
    ELSE LET shorter == Strings(A, n - 1)
         IN shorter \cup {Append(s, c) : s \in shorter, c \in A}

IdlePipe ==
    /\ chapters = <<>>
    /\ bad = <<>>
    /\ calls = <<>>
    /\ keep_wav = TRUE
    /\ disk = NoFiles
    /\ tmp = {}
    /\ ch_idx = 0
    /\ b_start = 0
    /\ all_audio = <<>>
    /\ sr = FALSE
    /\ wav_paths = <<>>
    /\ titles = <<>>
    /\ cursor_ms = 0
    /\ chapter_spans = <<>>
    /\ error = "none"
    /\ restarts = 0
    /\ resumed = {}

InitSplit ==
    /\ text \in Strings(TextAlphabet, MaxTextLen) \ {<<>>}
    /\ max_chars \in 1..MaxMaxChars
    /\ chunks = <<>>
    /\ pc = "split_text"
    /\ IdlePipe
    /\ IdleEscape

NextSplit == SplitText

SpecSplit == InitSplit /\ [][NextSplit]_vars

----------------------------------------------------------------------------
(* _escape_ffmeta *)

\* the characters of the bounded input strings
MetaAlphabet == {"\\", "=", ";", "#", "\n", "a"}

\* EscapeOrder with the backslash replaced last
EscapeOrder_m == <<"=", ";", "#", "\n", "\\">>

\* for ch in ("\\", "=", ";", "#", "\n")
EscapeOrder == <<"\\", "=", ";", "#", "\n">>

\* value.replace(ch, "\\" + ch)
RECURSIVE replace(_, _)
replace(s, ch) ==
    IF s = <<>> THEN <<>>
    ELSE IF s[1] = ch THEN <<"\\", ch>> \o replace(Tail(s), ch)
    ELSE <<s[1]>> \o replace(Tail(s), ch)

\* one iteration of the loop of _escape_ffmeta
EscapePass ==
    /\ pc = "escape"
    /\ esc_i < Len(EscapeOrder)
    /\ value' = replace(value, EscapeOrder[esc_i + 1])
    /\ esc_i' = esc_i + 1
    /\ UNCHANGED <<orig, pc>>
    /\ UNCHANGED <<pipeVars, splitVars>>

\* return value
EscapeReturn ==
    /\ pc = "escape"
    /\ esc_i = Len(EscapeOrder)
    /\ pc' = "escape_done"
    /\ UNCHANGED <<orig, value, esc_i>>
    /\ UNCHANGED <<pipeVars, splitVars>>

InitEscape ==
    /\ orig \in Strings(MetaAlphabet, MaxTitleLen)
    /\ value = orig
    /\ esc_i = 0
    /\ pc = "escape"
    /\ IdlePipe
    /\ IdleSplit

NextEscape ==
    \/ EscapePass
    \/ EscapeReturn

SpecEscape == InitEscape /\ [][NextEscape]_vars

----------------------------------------------------------------------------
(* Properties *)

\* the closed form of what one uninterrupted run leaves behind
\* segments whose batch call holds no failing segment, in order
KeptAudio(i) ==
    SelectSeq(Interval(1, Chapter(i).nchunks),
              LAMBDA k : ~\E j \in bad[i + 1] :
                            (j - 1) \div BATCH_SIZE = (k - 1) \div BATCH_SIZE)
EmittedChapters ==
    SelectSeq(Interval(0, Len(chapters) - 1), LAMBDA i : KeptAudio(i) # <<>>)
RECURSIVE SumMs(_, _)
SumMs(paths, n) == IF n = 0 THEN 0 ELSE SumMs(paths, n - 1) + Len(KeptAudio(paths[n]))
ExpectedSpans ==
    [k \in 1..Len(EmittedChapters) |->
        [title |-> chapters[k].title,
         start |-> SumMs(EmittedChapters, k - 1),
         end |-> SumMs(EmittedChapters, k)]]
HasGoodBatch(i) ==
    \E b \in 0..(Chapter(i).nchunks - 1) : b % BATCH_SIZE = 0 /\ ~CallFails(i, b)

\* C1: once the chapter spans are built, the i-th span carries the title of
\* the chapter whose WAV file is the i-th file of wav_paths; skipped chapters
\* contribute no span and no title.
C1_MarkersMatchAudio ==
    pc = "ffmpeg" =>
        /\ Len(chapter_spans) = Len(wav_paths)
        /\ \A i \in 1..Len(chapter_spans) :
              chapter_spans[i].title = Chapter(wav_paths[i]).title

\* C2: every chunk of _split_text, joined with single spaces, is at most
\* max_chars long, unless it is one single unit without any sentence or
\* clause boundary.
C2_ChunkWithinMaxChars ==
    pc = "split_done" =>
        \A k \in 1..Len(chunks) :
            \/ Len(join(chunks[k])) <= max_chars
            \/ /\ Len(chunks[k]) = 1
               /\ Len(re_split(chunks[k][1], SENTENCE_END)) = 1
               /\ Len(re_split(chunks[k][1], CLAUSE_END)) = 1

\* C3: the audio collected for a chapter, and the audio of every written
\* artifact, lists the segments in strictly increasing segment order (so no
\* segment occurs twice), whichever batches succeeded.
C3_SegmentOrder ==
    /\ StrictlyIncreasing(all_audio)
    /\ \A i \in DOMAIN disk : StrictlyIncreasing(disk[i].audio)
C3_Witness ==
    \E i \in DOMAIN disk :
        /\ Len(disk[i].audio) > BATCH_SIZE
        /\ disk[i].audio[1] = 1

\* C4: a run that reaches the muxer, interrupted and restarted or not, has
\* the artifacts, the path list and the chapter spans of one uninterrupted
\* run; a chapter found on disk gets no engine call in that run.
C4_Resumable ==
    /\ \A i \in resumed : calls[i + 1] = 0
    /\ pc = "ffmpeg" =>
          /\ wav_paths = EmittedChapters
          /\ DOMAIN disk = Range(EmittedChapters)
          /\ \A i \in DOMAIN disk : disk[i].audio = KeptAudio(i)
          /\ chapter_spans = ExpectedSpans
C4_Witness ==
    /\ pc = "ffmpeg"
    /\ restarts >= 1
    /\ resumed # {}
    /\ \E i \in Range(wav_paths) : i \notin resumed

\* C5: the first span starts at 0, every span ends at its start plus the
\* duration of its file, and every span starts where the previous one ends.
C5_TimelineContiguous ==
    /\ Len(chapter_spans) <= Len(wav_paths)
    /\ \A i \in 1..Len(chapter_spans) :
          /\ chapter_spans[i].start = (IF i = 1 THEN 0 ELSE chapter_spans[i - 1].end)
          /\ chapter_spans[i].end =
                chapter_spans[i].start + probe_duration_ms(wav_paths[i])
          /\ chapter_spans[i].start <= chapter_spans[i].end
C5_Witness ==
    /\ pc = "ffmpeg"
    /\ Len(chapter_spans) >= 3
    /\ chapter_spans[1].end > 0
    /\ chapter_spans[2].end = chapter_spans[2].start
    /\ chapter_spans[3].end > chapter_spans[3].start

\* C6: the five replace passes return what one left-to-right pass over the
\* original string returns, and the result has no unescaped occurrence of
\* any of the five characters.
Special == {"\\", "=", ";", "#", "\n"}
RECURSIVE SinglePass(_)
SinglePass(s) ==
    IF s = <<>> THEN <<>>
    ELSE (IF s[1] \in Special THEN <<"\\", s[1]>> ELSE <<s[1]>>) \o SinglePass(Tail(s))
RECURSIVE AllEscaped(_, _)
AllEscaped(s, i) ==
    IF i > Len(s) THEN TRUE
    ELSE IF s[i] = "\\" THEN i + 1 <= Len(s) /\ s[i + 1] \in Special /\ AllEscaped(s, i + 2)
    ELSE s[i] \notin Special /\ AllEscaped(s, i + 1)
C6_EscapeSinglePass ==
    pc = "escape_done" => value = SinglePass(orig) /\ AllEscaped(value, 1)
C6_Witness ==
    /\ pc = "escape_done"
    /\ "\\" \in Range(orig)
    /\ Range(orig) \cap {"=", ";", "#", "\n"} # {}
    /\ Len(value) > Len(orig)

\* C7 (as stated): when the batch loop of a chapter ends, the collected
\* audio holds every segment except the failing ones.
C7_OnlyFailingSegmentsDropped ==
    (pc = "batch" /\ b_start >= Chapter(ch_idx).nchunks) =>
        Range(all_audio) = (1..Chapter(ch_idx).nchunks) \ bad[ch_idx + 1]
\* C7 (amended): when the batch loop of a chapter ends, the collected audio
\* is, in order, exactly the segments of the batch calls that held no failing
\* segment; a failing segment takes the rest of its batch with it and no
\* other batch.
C7_FailingBatchDropped ==
    (pc = "batch" /\ b_start >= Chapter(ch_idx).nchunks) =>
        all_audio = KeptAudio(ch_idx)
C7_Witness ==
    /\ pc = "batch"
    /\ b_start >= Chapter(ch_idx).nchunks
    /\ all_audio # <<>>
    /\ CallFails(ch_idx, 0)
    /\ (1..BATCH_SIZE) \ bad[ch_idx + 1] # {}

\* C8: of the chapters the running synthesise_chapters has passed, exactly
\* those with a successful synthesis call have an artifact and a returned
\* path; the loop reaches the end of the chapter list, and the returned
\* paths are in strictly increasing chapter order.
C8_EmitOrSkip ==
    pc \in {"chapter", "batch", "synth_done"} =>
        /\ \A i \in 0..(ch_idx - 1) :
              /\ i \in DOMAIN disk <=> HasGoodBatch(i)
              /\ i \in Range(wav_paths) <=> HasGoodBatch(i)
        /\ Range(wav_paths) \subseteq 0..(ch_idx - 1)
        /\ StrictlyIncreasing(wav_paths)
        /\ pc = "synth_done" => ch_idx = Len(chapters)
C8_Witness ==
    /\ pc = "synth_done"
    /\ restarts = 0
    /\ \E i \in 0..(Len(chapters) - 1) :
          /\ ~HasGoodBatch(i)
          /\ i \notin DOMAIN disk
          /\ \E j \in Range(wav_paths) : j > i

\* C9: an I/O error on a chapter's artifact never ends the run.
C9_IOErrorConfined ==
    ~(pc = "failed" /\ error = "io")

\* C10: when the ffmpeg failure has propagated out of main, no temporary
\* file or directory of the run is left.
C10_TempFilesRemoved ==
    (pc = "failed" /\ error = "ffmpeg") => tmp = {}

====
